---- MODULE Spec2Model ----
(***************************************************************************)
(* Model of the e-commerce streaming pipeline: the Kafka topic             *)
(* 'ecommerce_events', the Spark Structured Streaming job of               *)
(* spark-apps/spark_streaming.py with its two streaming queries            *)
(* (invalid_records_console and iceberg_stream_writer), the checkpoint     *)
(* directory of the writer and the Iceberg table local.db.ecommerce_events.*)
(***************************************************************************)
EXTENDS Integers, Sequences, FiniteSets, TLC

(* ---------------------------------------------------------------------- *)
(* Bounds                                                                 *)
(* ---------------------------------------------------------------------- *)

\* total number of records ever produced to the topic
MaxRecords == 1

\* number of records waiting in the topic in the checks of parsing
ParseLen == 2

\* number of requests the API serves
MaxRequests == 2

\* number of times the producer gets one message written to the topic
MaxAttempts == 2

(* ---------------------------------------------------------------------- *)
(* Values                                                                 *)
(* ---------------------------------------------------------------------- *)

\* a nullable column value: << >> is SQL NULL, <<v>> is the value v
Null == << >>

Some(v) == <<v>>

\* JSON scalars of a payload, kept as their literal text
Str(s) == [type |-> "string", text |-> s]

Num(s) == [type |-> "int", text |-> s]

\* the function f without the key k
Without(f, k) == [x \in DOMAIN f \ {k} |-> f[x]]

\* the function f with the key k (re)bound to v
With(f, k, v) == [x \in DOMAIN f \cup {k} |-> IF x = k THEN v ELSE f[x]]

(* ---------------------------------------------------------------------- *)
(* Schema and parsing (spark_streaming.py, lines 50-93)                   *)
(* ---------------------------------------------------------------------- *)

ecommerce_base_schema ==
    << <<"event_id", "string">>, <<"event_type", "string">>,
       <<"user_id", "int">>, <<"product_id", "string">>,
       <<"session_id", "string">>, <<"location", "string">>,
       <<"device", "string">>, <<"timestamp", "string">>,
       <<"ip_address", "string">>, <<"category", "string">>,
       <<"quantity", "int">>, <<"price", "double">>,
       <<"order_id", "string">>, <<"amount", "double">> >>

SchemaFields == {ecommerce_base_schema[i][1] : i \in DOMAIN ecommerce_base_schema}

FieldType(name) ==
    LET i == CHOOSE j \in DOMAIN ecommerce_base_schema :
                 ecommerce_base_schema[j][1] = name
    IN  ecommerce_base_schema[i][2]

\* JSON integer literals that fit a 32-bit IntegerType, with their value;
\* an integer literal outside this table stands for one that overflows.
IntLiterals == [t \in {"1", "2", "1000"} |->
                   IF t = "1" THEN 1 ELSE IF t = "2" THEN 2 ELSE 1000]

\* conversion of one JSON scalar to a column of the given type:
\* <<TRUE, value>> or <<FALSE, Null>> when the token does not fit the type
ConvertField(json, type) ==
    CASE type = "string" -> <<TRUE, Some(json.text)>>
      [] type = "int"    ->
            IF json.type = "int" /\ json.text \in DOMAIN IntLiterals
            THEN <<TRUE, Some(IntLiterals[json.text])>>
            ELSE <<FALSE, Null>>
      [] type = "double" ->
            IF json.type \in {"int", "double"}
            THEN <<TRUE, Some(json.text)>>
            ELSE <<FALSE, Null>>

\* DataStreamWriter.toTable (line 168) exists from Spark 3.1 on, and from
\* Spark 3.0 on a malformed record keeps its well-typed top-level fields
partialResults == TRUE

\* variant: from_json in FAILFAST mode
ParseMode_FailFast == "FAILFAST"

\* the mode option of from_json (line 83)
ParseMode == "PERMISSIVE"

\* a payload that is no JSON object, or has a field of the schema whose
\* token does not fit the field's type
Malformed(payload) ==
    \/ ~payload.decodable
    \/ \E f \in SchemaFields :
          /\ f \in DOMAIN payload.fields
          /\ ~ConvertField(payload.fields[f], FieldType(f))[1]

\* from_json raises on a malformed record in every mode but PERMISSIVE
from_json_raises(payload, mode) == mode # "PERMISSIVE" /\ Malformed(payload)

\* from_json(value, ecommerce_base_schema, mode = PERMISSIVE).  An
\* undecodable payload gives a row of nulls.  A field whose token does not
\* fit its type makes the record malformed: with partial results only that
\* field is null, without them the whole row is.
from_json(payload, partial) ==
    LET present(f) == payload.decodable /\ f \in DOMAIN payload.fields
        conv(f)    == ConvertField(payload.fields[f], FieldType(f))
        malformed  == \E f \in SchemaFields : present(f) /\ ~conv(f)[1]
    IN  IF ~payload.decodable \/ (malformed /\ ~partial)
        THEN [f \in SchemaFields |-> Null]
        ELSE [f \in SchemaFields |->
                 IF present(f) THEN conv(f)[2] ELSE Null]

\* timestamps the cast of a string to TimestampType understands, as hours
\* since 2024-01-01T00:00:00Z; the other timestamp texts of the payloads
\* below cast to NULL
TimestampLiterals ==
    [t \in {"2024-01-01T00:00:00Z", "2024-01-01T23:00:00Z",
            "2024-01-02T00:00:00Z", "2024-01-01T12:00:00"} |->
        CASE t = "2024-01-01T00:00:00Z" -> 0
          [] t = "2024-01-01T23:00:00Z" -> 23
          [] t = "2024-01-02T00:00:00Z" -> 24
          [] t = "2024-01-01T12:00:00"  -> 12]

\* literals that carry no zone (the form event_generator.py sends): the
\* cast reads them as wall-clock time of the session time zone
ZonelessLiterals == {"2024-01-01T12:00:00"}

to_timestamp(c, tz) ==
    IF c # Null /\ c[1] \in DOMAIN TimestampLiterals
    THEN IF c[1] \in ZonelessLiterals
         THEN Some(TimestampLiterals[c[1]] - tz)
         ELSE Some(TimestampLiterals[c[1]])
    ELSE Null

\* calendar dates around 2024-01-01, indexed by day number
DayNames == [d \in -1..2 |->
                CASE d = -1 -> "2023-12-31"
                  [] d = 0  -> "2024-01-01"
                  [] d = 1  -> "2024-01-02"
                  [] d = 2  -> "2024-01-03"]

\* date_format(timestamp, "yyyy-MM-dd"), rendered in the session time zone
\* (tz is the zone's offset from UTC in hours)
date_format(ts, tz) ==
    IF ts = Null THEN Null
    ELSE Some(DayNames[(ts[1] + tz) \div 24])

\* parsed_df: one row per Kafka record
parsed_df(payload, partial, tz) ==
    LET data == from_json(payload, partial)
        ts   == to_timestamp(data["timestamp"], tz)
    IN  With(With(data, "timestamp", ts), "event_date", date_format(ts, tz))

\* variant: the timestamp is not among the critical fields
required_fields_NoTimestamp == {"event_id", "event_type", "user_id"}

required_fields == {"event_id", "event_type", "user_id", "timestamp"}

\* DataFrame.dropna(subset): keeps the rows with no null in the subset
dropna(row, subset) == \A f \in subset : row[f] # Null

\* variant: dropna(how="all"), a row is dropped only when every critical
\* field is null
cleaned_df_HowAll(row) == \E f \in required_fields : row[f] # Null

\* cleaned_df: the rows the Iceberg writer receives
cleaned_df(row) == dropna(row, required_fields)

\* invalid_df: the rows the console query receives
invalid_df(row) == row["event_id"] = Null \/ row["event_type"] = Null

\* column list of the final select
TableColumns ==
    {"event_id", "event_type", "user_id", "product_id", "session_id",
     "location", "device", "timestamp", "event_date", "ip_address",
     "category", "quantity", "price", "order_id", "amount"}

SelectColumns(row) == [c \in TableColumns |-> row[c]]

\* column types of CREATE TABLE local.db.ecommerce_events
TableDDL ==
    [c \in TableColumns |->
        CASE c \in {"user_id", "quantity"} -> "int"
          [] c \in {"price", "amount"}     -> "double"
          [] c = "timestamp"               -> "timestamp"
          [] OTHER                         -> "string"]

(* ---------------------------------------------------------------------- *)
(* Payloads that producers put on the topic                               *)
(* ---------------------------------------------------------------------- *)

\* an event as event_generator.py builds it
BaseEvent ==
    [event_id   |-> Str("e1"),
     event_type |-> Str("login"),
     user_id    |-> Num("1000"),
     timestamp  |-> Str("2024-01-01T23:00:00Z"),
     session_id |-> Str("s1"),
     location   |-> Str("Lagos"),
     device     |-> Str("mobile")]

Json(fields) == [decodable |-> TRUE, fields |-> fields]

OtherSession == With(BaseEvent, "session_id", Str("s2"))

ValidPayload == Json(BaseEvent)

ValidPayload2 == Json(With(OtherSession, "event_id", Str("e2")))

MissingUserId == Json(Without(BaseEvent, "user_id"))

MissingEventId == Json(Without(BaseEvent, "event_id"))

\* a timestamp text that no Spark version casts to a timestamp (unlike
\* 'yesterday', 'now', ..., which Spark 3.0 and 3.1 read as special values)
BadTimestamp == Json(With(OtherSession, "timestamp", Str("not-a-timestamp")))

Undecodable == [decodable |-> FALSE, fields |-> << >>]

MissingEventType == Json(Without(BaseEvent, "event_type"))

MissingTimestamp == Json(Without(BaseEvent, "timestamp"))

\* user_id sent as a JSON string
MistypedUserId == Json(With(BaseEvent, "user_id", Str("abc")))

\* user_id beyond the 32-bit range
OverflowUserId == Json(With(BaseEvent, "user_id", Num("3000000000")))

\* an optional field of the schema with a token of the wrong type
MistypedQuantity == Json(With(BaseEvent, "quantity", Str("two")))

\* the event of the spec's scenarios, at midnight UTC
MidnightEvent ==
    Json(With(With(BaseEvent, "event_type", Str("checkout")),
              "timestamp", Str("2024-01-01T00:00:00Z")))

\* a timestamp without zone, as faker's iso8601() gives it
ZonelessEvent == Json(With(BaseEvent, "timestamp", Str("2024-01-01T12:00:00")))

\* an add_to_cart event of event_generator.py: fields of the schema
\* (product_id, quantity, price) and fields outside it (cart_id)
CartEvent ==
    Json(With(With(With(With(With(BaseEvent,
        "event_type", Str("add_to_cart")),
        "product_id", Str("P1000")),
        "quantity", Num("2")),
        "price", [type |-> "double", text |-> "19.99"]),
        "cart_id", Str("c1")))

\* payloads for the checks of parsing and routing
ParsePayloads ==
    {ValidPayload, ValidPayload2, MissingUserId, MissingEventId,
     MissingEventType, MissingTimestamp, BadTimestamp, Undecodable,
     MistypedUserId, OverflowUserId, MistypedQuantity, MidnightEvent,
     ZonelessEvent, CartEvent}

\* a Kafka message: key and value (api/main.py keys by session_id)
Message(key, value) == [key |-> key, value |-> value]

\* what producers send: valid events, and one record for every way of
\* failing validation (each critical field missing, the timestamp
\* unreadable, user_id of the wrong type, no JSON at all)
Messages ==
    {Message("s1", ValidPayload), Message("s2", ValidPayload2),
     Message("s1", MissingUserId), Message("s2", BadTimestamp),
     Message("s2", Undecodable), Message("s1", MissingEventId),
     Message("s1", MissingEventType), Message("s1", MissingTimestamp),
     Message("s1", MistypedUserId)}

(* ---------------------------------------------------------------------- *)
(* State                                                                  *)
(* ---------------------------------------------------------------------- *)

\* partitions of the topic 'ecommerce_events'
Partitions == {0, 1}

PartitionSeq == <<0, 1>>

\* offsets from UTC (hours) of the zones the job's JVM may run in
TimeZones == {0, -5}

VARIABLES
    topic,           \* Kafka log: partition -> sequence of payloads
    pc,              \* position of the driver script
    tz,              \* session time zone of the deployment
    iq,              \* state of the query invalid_records_console
    iOffsets,        \* next offsets of invalid_records_console (in memory;
                     \* empty while the running query has fetched none yet)
    console,         \* rows printed by the console sink
    wq,              \* state of the query iceberg_stream_writer
    wPhase,          \* progress of the writer's current micro-batch
    initialOffsets,  \* checkpoint: starting offsets of the Kafka source
    offsetLog,       \* checkpoint: end offsets of every planned batch
    commitLog,       \* checkpoint: number of batches marked committed
    table,           \* Iceberg table: sequence of snapshots
    tableSchema,     \* Iceberg table: column -> type (empty: no table)
    handling,        \* API: the request between produce() and poll(0), if any
    queue,           \* API producer: messages enqueued, not yet reported
    outcomes,        \* API producer: delivery reports awaiting their callback
    enqueued,        \* history: the messages produce() has accepted
    responses,       \* API: the HTTP responses given so far
    printed,         \* API: lines printed by delivery_report
    replayed         \* history: a batch already in the table was re-run

vars == <<topic, pc, tz, iq, iOffsets, console, wq, wPhase,
          initialOffsets, offsetLog, commitLog, table, tableSchema, handling,
          queue, outcomes, enqueued, responses, printed, replayed>>

\* what the deployment fixes for the life of the job
env == <<tz>>

\* state of the ingress API (api/main.py)
ingress == <<handling, queue, outcomes, enqueued, responses, printed>>

volatile == <<pc, env, iq, iOffsets, wq, wPhase>>

checkpoint == <<initialOffsets, offsetLog, commitLog>>

ZeroOffsets == [p \in Partitions |-> 0]

\* end offsets of the topic: the offset the next record of p will get
LatestOffsets == [p \in Partitions |-> Len(topic[p])]

RECURSIVE SumLen(_, _)
SumLen(f, S) ==
    IF S = {} THEN 0
    ELSE LET p == CHOOSE q \in S : TRUE
         IN  Len(f[p]) + SumLen(f, S \ {p})

TotalRecords == SumLen(topic, Partitions)

\* the record of partition p at Kafka offset o (offsets count from 0)
RecordAt(p, o) == topic[p][o + 1]

\* the parsed rows of partition p at offsets from..to-1, each with the
\* position it was read from
RECURSIVE RowsOfPartition(_, _, _, _, _)
RowsOfPartition(p, from, to, partial, zone) ==
    IF from >= to THEN << >>
    ELSE <<[src |-> <<p, from>>,
            data |-> parsed_df(RecordAt(p, from), partial, zone)]>>
         \o RowsOfPartition(p, from + 1, to, partial, zone)

RECURSIVE RowsOfRange(_, _, _, _, _)
RowsOfRange(ps, start, end, partial, zone) ==
    IF ps = << >> THEN << >>
    ELSE RowsOfPartition(Head(ps), start[Head(ps)], end[Head(ps)],
                         partial, zone)
         \o RowsOfRange(Tail(ps), start, end, partial, zone)

KeepCleaned(r) == cleaned_df(r.data)

KeepInvalid(r) == invalid_df(r.data)

\* parsing the records at offsets start..end-1 raises
BatchRaises(start, end) ==
    \E p \in Partitions : \E o \in start[p]..(end[p] - 1) :
        from_json_raises(RecordAt(p, o), ParseMode)

\* rows of a micro-batch of the writer, in the table's column order
WriterRows(start, end, partial, zone) ==
    LET rows == SelectSeq(RowsOfRange(PartitionSeq, start, end, partial, zone),
                          KeepCleaned)
    IN  [i \in DOMAIN rows |->
            [src |-> rows[i].src, data |-> SelectColumns(rows[i].data)]]

\* rows of a micro-batch of the console query
InvalidRows(start, end, partial, zone) ==
    LET rows == SelectSeq(RowsOfRange(PartitionSeq, start, end, partial, zone),
                          KeepInvalid)
    IN  {rows[i] : i \in DOMAIN rows}

\* start offsets of batch b of the writer (batch ids count from 0)
BatchStart(b) == IF b = 0 THEN initialOffsets[1] ELSE offsetLog[b]

BatchEnd(b) == offsetLog[b + 1]

\* offsets up to which the writer has planned batches
PlannedOffsets ==
    IF offsetLog = << >> THEN initialOffsets[1] ELSE offsetLog[Len(offsetLog)]

TableEpochs == {table[i].epochId : i \in DOMAIN table}

Max(S) == CHOOSE x \in S : \A y \in S : y <= x

Init ==
    /\ topic = [p \in Partitions |-> << >>]
    /\ pc = "down"
    /\ tz \in TimeZones
    /\ iq = "none"
    /\ iOffsets = ZeroOffsets
    /\ console = {}
    /\ wq = "none"
    /\ wPhase = "idle"
    /\ initialOffsets = << >>
    /\ offsetLog = << >>
    /\ commitLog = 0
    /\ table = << >>
    /\ tableSchema = << >>
    /\ handling = << >>
    /\ queue = << >>
    /\ outcomes = << >>
    /\ enqueued = << >>
    /\ responses = << >>
    /\ printed = << >>
    /\ replayed = FALSE

(* ---------------------------------------------------------------------- *)
(* Producers (api/main.py send_event, event_generator.py)                 *)
(* ---------------------------------------------------------------------- *)

\* the broker's partitioner: the partition a key hashes to
KafkaPartition(key) == IF key = "s1" THEN 0 ELSE 1

Produce(msg) ==
    /\ TotalRecords < MaxRecords
    /\ topic' = [topic EXCEPT ![KafkaPartition(msg.key)] = Append(@, msg.value)]
    /\ UNCHANGED <<volatile, console, checkpoint, table, tableSchema,
                   replayed, ingress>>

(* ---------------------------------------------------------------------- *)
(* Driver script (spark_streaming.py, top to bottom)                      *)
(* ---------------------------------------------------------------------- *)

\* spark.stop(): every active query is stopped and its in-memory progress
\* is gone, nothing durable changes
StoppedBySpark(q) == IF q = "active" THEN "stopped" ELSE q

SparkStop ==
    /\ iq' = StoppedBySpark(iq)
    /\ wq' = StoppedBySpark(wq)
    /\ wPhase' = "idle"
    /\ iOffsets' = ZeroOffsets
    /\ pc' = "exited"
    /\ UNCHANGED env

\* the process starts; ICEBERG_S3_BUCKET is set or not (lines 16-18)
Launch(bucketSet) ==
    /\ pc \in {"down", "exited"}
    /\ pc' = IF bucketSet THEN "db" ELSE "exited"
    /\ UNCHANGED env
    /\ iq' = "none"
    /\ wq' = "none"
    /\ wPhase' = "idle"
    /\ iOffsets' = ZeroOffsets
    /\ UNCHANGED <<topic, console, checkpoint, table, tableSchema, replayed,
                   ingress>>

\* CREATE DATABASE IF NOT EXISTS local.db (lines 41-48)
CreateDatabase(ok) ==
    /\ pc = "db"
    /\ IF ok THEN pc' = "kafka" /\ UNCHANGED <<env, iq, iOffsets, wq, wPhase>>
             ELSE SparkStop
    /\ UNCHANGED <<topic, console, checkpoint, table, tableSchema, replayed,
                   ingress>>

\* spark.readStream.format("kafka")...load() (lines 69-79)
ReadStream(ok) ==
    /\ pc = "kafka"
    /\ IF ok THEN pc' = "invalid" /\ UNCHANGED <<env, iq, iOffsets, wq, wPhase>>
             ELSE SparkStop
    /\ UNCHANGED <<topic, console, checkpoint, table, tableSchema, replayed,
                   ingress>>

\* invalid_df.writeStream...start() (lines 96-102): start() returns when
\* the query's thread is running; the thread has fetched no offsets yet.
\* The statement is in no try block: when start() raises, the script ends
\* with the exception and no query exists.
StartInvalidQuery(ok) ==
    /\ pc = "invalid"
    /\ IF ok THEN /\ pc' = "table"
                  /\ iq' = "active"
                  /\ iOffsets' = << >>
             ELSE /\ pc' = "exited"
                  /\ UNCHANGED <<iq, iOffsets>>
    /\ UNCHANGED <<env, wq, wPhase, topic, console, checkpoint, table,
                   tableSchema, replayed, ingress>>

\* variant: a failure of CREATE TABLE is logged and the script goes on
CreateTable_Swallows(ok) ==
    /\ pc = "table"
    /\ pc' = "writer"
    /\ tableSchema' = IF ok /\ tableSchema = << >> THEN TableDDL ELSE tableSchema
    /\ UNCHANGED <<env, iq, iOffsets, wq, wPhase>>
    /\ UNCHANGED <<topic, console, checkpoint, table, replayed, ingress>>

\* CREATE TABLE IF NOT EXISTS local.db.ecommerce_events (lines 107-135)
CreateTable(ok) ==
    /\ pc = "table"
    /\ IF ok THEN /\ pc' = "writer"
                  /\ tableSchema' = IF tableSchema = << >> THEN TableDDL
                                                           ELSE tableSchema
                  /\ UNCHANGED <<env, iq, iOffsets, wq, wPhase>>
             ELSE SparkStop /\ UNCHANGED tableSchema
    /\ UNCHANGED <<topic, console, checkpoint, table, replayed, ingress>>

\* offsets a Kafka source without the startingOffsets option starts from
\* when the checkpoint holds none: "latest", at the time they are fetched
StartingOffsets == LatestOffsets

\* cleaned_df.writeStream...option("checkpointLocation", ...).toTable(...)
\* (lines 162-168): toTable returns when the query's thread is running.
\* The query resumes from its checkpoint; a batch that was planned but is
\* not marked committed is run again.  A checkpoint without starting
\* offsets gets them later, from the query's thread.  When toTable raises,
\* no writer query exists, the except block re-raises and the finally
\* block stops the session (lines 176-182).
StartWriter(ok) ==
    /\ pc = "writer"
    /\ IF ok
       THEN /\ pc' = "await"
            /\ wq' = "active"
            /\ wPhase' = IF Len(offsetLog) > commitLog THEN "planned"
                                                       ELSE "idle"
            /\ UNCHANGED <<env, iq, iOffsets>>
       ELSE SparkStop
    /\ UNCHANGED <<topic, console, checkpoint, table, tableSchema,
                   replayed, ingress>>

\* spark.streams.awaitAnyTermination() returns or raises as soon as any
\* query has terminated; finally: spark.stop() (lines 174-182)
AwaitAnyTermination ==
    /\ pc = "await"
    /\ iq = "failed" \/ wq = "failed"
    /\ SparkStop
    /\ UNCHANGED <<topic, console, checkpoint, table, tableSchema, replayed,
                   ingress>>

\* the process is killed at any point; only durable state survives
Crash ==
    /\ pc \notin {"down", "exited"}
    /\ pc' = "down"
    /\ iq' = "none"
    /\ wq' = "none"
    /\ wPhase' = "idle"
    /\ iOffsets' = ZeroOffsets
    /\ UNCHANGED <<env, topic, console, checkpoint, table, tableSchema,
                   replayed, ingress>>

(* ---------------------------------------------------------------------- *)
(* Query invalid_records_console                                          *)
(* ---------------------------------------------------------------------- *)

\* the query's thread, at its first trigger, fetches the offsets it starts
\* from; the query has no checkpoint, so after every start these are the
\* latest ones
InvalidInitialOffsets ==
    /\ iq = "active"
    /\ iOffsets = << >>
    /\ iOffsets' = StartingOffsets
    /\ UNCHANGED <<pc, env, iq, wq, wPhase, topic, console, checkpoint, table,
                   tableSchema, replayed, ingress>>

\* one micro-batch: everything new is parsed, filtered and printed; when
\* the parsing raises, the query terminates with the exception
InvalidBatch ==
    /\ iq = "active"
    /\ iOffsets # << >>
    /\ iOffsets # LatestOffsets
    /\ IF BatchRaises(iOffsets, LatestOffsets)
       THEN /\ iq' = "failed"
            /\ iOffsets' = ZeroOffsets
            /\ UNCHANGED console
       ELSE /\ console' = console \cup InvalidRows(iOffsets, LatestOffsets,
                                                   partialResults, tz)
            /\ iOffsets' = LatestOffsets
            /\ UNCHANGED iq
    /\ UNCHANGED <<pc, env, wq, wPhase, topic, checkpoint, table,
                   tableSchema, replayed, ingress>>

\* the console query terminates with an exception
InvalidFail ==
    /\ iq = "active"
    /\ iq' = "failed"
    /\ iOffsets' = ZeroOffsets
    /\ UNCHANGED <<pc, env, wq, wPhase, topic, console, checkpoint, table,
                   tableSchema, replayed, ingress>>

(* ---------------------------------------------------------------------- *)
(* Query iceberg_stream_writer (micro-batch execution with a checkpoint)  *)
(* ---------------------------------------------------------------------- *)

\* the writer's thread, at its first trigger with a checkpoint that holds
\* no starting offsets, fetches them and stores them in the checkpoint
WriterInitialOffsets ==
    /\ wq = "active"
    /\ initialOffsets = << >>
    /\ initialOffsets' = <<StartingOffsets>>
    /\ UNCHANGED <<volatile, topic, console, offsetLog, commitLog, table,
                   tableSchema, replayed, ingress>>

\* variant: a partition without new data is logged at offset 0
PlanBatch_ResetsIdlePartition ==
    /\ wq = "active"
    /\ wPhase = "idle"
    /\ initialOffsets # << >>
    /\ offsetLog = << >> \/ LatestOffsets # PlannedOffsets
    /\ offsetLog' = Append(offsetLog,
          [p \in Partitions |-> IF LatestOffsets[p] > PlannedOffsets[p]
                                THEN LatestOffsets[p] ELSE 0])
    /\ wPhase' = "planned"
    /\ UNCHANGED <<pc, env, iq, iOffsets, wq, topic, console, initialOffsets,
                   commitLog, table, tableSchema, replayed, ingress>>

\* the next batch is planned: its end offsets go to the offset log.  A
\* batch is planned when the source has offsets beyond the planned ones,
\* and also when the checkpoint holds no batch yet: the first batch of a
\* new checkpoint is run whether or not it holds data
PlanBatch ==
    /\ wq = "active"
    /\ wPhase = "idle"
    /\ initialOffsets # << >>
    /\ offsetLog = << >> \/ LatestOffsets # PlannedOffsets
    /\ offsetLog' = Append(offsetLog, LatestOffsets)
    /\ wPhase' = "planned"
    /\ UNCHANGED <<pc, env, iq, iOffsets, wq, topic, console, initialOffsets,
                   commitLog, table, tableSchema, replayed, ingress>>

\* variant: the commit does not look for the epoch in the table
IcebergCommit_NoEpochCheck(tbl, epochId, rows) ==
    Append(tbl, [epochId |-> epochId, rows |-> rows])

\* the Iceberg streaming commit of one epoch: one atomic snapshot, skipped
\* when the table already holds this epoch or a later one of the query
IcebergCommit(tbl, epochId, rows) ==
    IF tbl # << >> /\ epochId <= Max({tbl[i].epochId : i \in DOMAIN tbl})
    THEN tbl
    ELSE Append(tbl, [epochId |-> epochId, rows |-> rows])

\* the planned batch is read from Kafka, transformed and handed to the
\* sink, which commits it as one snapshot (an empty batch too); when the
\* parsing raises, the query terminates with the exception.  The rows have
\* the table's columns, so the write leaves the table's schema alone.
AddBatch ==
    /\ wq = "active"
    /\ wPhase = "planned"
    /\ LET b == Len(offsetLog) - 1
       IN  IF BatchRaises(BatchStart(b), BatchEnd(b))
           THEN /\ wq' = "failed"
                /\ wPhase' = "idle"
                /\ UNCHANGED <<table, replayed>>
           ELSE /\ table' = IcebergCommit(table, b,
                               WriterRows(BatchStart(b), BatchEnd(b),
                                          partialResults, tz))
                /\ replayed' = (replayed \/ b \in TableEpochs)
                /\ wPhase' = "appended"
                /\ UNCHANGED wq
    /\ UNCHANGED <<pc, env, iq, iOffsets, topic, console, checkpoint,
                   tableSchema, ingress>>

\* the batch fails (storage or broker error), before the sink's commit or
\* after it and before the commit log is written: the query terminates
\* with an exception; the table and the checkpoint stay as they are
AddBatchFail ==
    /\ wq = "active"
    /\ wPhase \in {"planned", "appended"}
    /\ wq' = "failed"
    /\ wPhase' = "idle"
    /\ UNCHANGED <<pc, env, iq, iOffsets, topic, console, checkpoint, table,
                   tableSchema, replayed, ingress>>

\* variant: the batch is marked committed before the sink has run
WriteCommitLog_BeforeSink ==
    /\ wq = "active"
    /\ wPhase \in {"planned", "appended"}
    /\ commitLog' = Len(offsetLog)
    /\ wPhase' = "idle"
    /\ UNCHANGED <<pc, env, iq, iOffsets, wq, topic, console, initialOffsets,
                   offsetLog, table, tableSchema, replayed, ingress>>

\* after the sink returned, the batch is marked committed in the commit log
WriteCommitLog ==
    /\ wq = "active"
    /\ wPhase = "appended"
    /\ commitLog' = Len(offsetLog)
    /\ wPhase' = "idle"
    /\ UNCHANGED <<pc, env, iq, iOffsets, wq, topic, console, initialOffsets,
                   offsetLog, table, tableSchema, replayed, ingress>>

Next ==
    \/ \E msg \in Messages : Produce(msg)
    \/ \E b \in BOOLEAN : Launch(b)
    \/ \E ok \in BOOLEAN : CreateDatabase(ok)
    \/ \E ok \in BOOLEAN : ReadStream(ok)
    \/ \E ok \in BOOLEAN : StartInvalidQuery(ok)
    \/ \E ok \in BOOLEAN : CreateTable(ok)
    \/ \E ok \in BOOLEAN : StartWriter(ok)
    \/ AwaitAnyTermination
    \/ Crash
    \/ InvalidInitialOffsets
    \/ InvalidBatch
    \/ InvalidFail
    \/ WriterInitialOffsets
    \/ PlanBatch
    \/ AddBatch
    \/ AddBatchFail
    \/ WriteCommitLog

Spec == Init /\ [][Next]_vars

(* ---------------------------------------------------------------------- *)
(* Parsing and routing: the running job meets a topic that holds any      *)
(* sequence of payloads and works it off                                  *)
(* ---------------------------------------------------------------------- *)

RECURSIVE SeqsUpTo(_, _)
SeqsUpTo(S, n) ==
    IF n = 0 THEN {<< >>}
    ELSE LET shorter == SeqsUpTo(S, n - 1)
         IN  shorter \cup {Append(q, x) : q \in shorter, x \in S}

ParseInit ==
    /\ \E recs \in SeqsUpTo(ParsePayloads, ParseLen) \ {<< >>} :
          topic = [p \in Partitions |-> IF p = 0 THEN recs ELSE << >>]
    /\ pc = "await"
    /\ tz \in TimeZones
    /\ iq = "active"
    /\ iOffsets = ZeroOffsets
    /\ console = {}
    /\ wq = "active"
    /\ wPhase = "idle"
    /\ initialOffsets = <<ZeroOffsets>>
    /\ offsetLog = << >>
    /\ commitLog = 0
    /\ table = << >>
    /\ tableSchema = TableDDL
    /\ handling = << >>
    /\ queue = << >>
    /\ outcomes = << >>
    /\ enqueued = << >>
    /\ responses = << >>
    /\ printed = << >>
    /\ replayed = FALSE

ParseNext ==
    \/ PlanBatch
    \/ AddBatch
    \/ WriteCommitLog
    \/ InvalidBatch

ParseSpec == ParseInit /\ [][ParseNext]_vars

(* ---------------------------------------------------------------------- *)
(* Ingress API (api/main.py): POST /events and the producer's background  *)
(* thread                                                                 *)
(* ---------------------------------------------------------------------- *)

\* request bodies that pass EventModel: the seven declared fields are there
ApiEvents == {BaseEvent, With(OtherSession, "event_id", Str("e2"))}

\* json.dumps(event_dict)
json_dumps(event_dict) == Json(event_dict)

\* delivery_report(err, msg): the line it prints
delivery_report(err, msg) ==
    IF err THEN <<"Message delivery failed">>
    ELSE <<"Message delivered to", "ecommerce_events", KafkaPartition(msg.key)>>

\* producer.poll(0): the callbacks of the delivery reports that are waiting
Poll(reports) == [i \in DOMAIN reports |->
                     delivery_report(reports[i].err, reports[i].msg)]

Respond(code, body, event) ==
    Append(responses, [code |-> code, body |-> body, request |-> event])

\* POST /events, lines 36-45: produce() puts the message, keyed by
\* session_id, on the producer's queue, or raises, and then the handler
\* answers HTTP 500.  The handler is a coroutine without await: requests do
\* not interleave with each other, only with the producer's thread.
SendEvent(event, raises) ==
    /\ handling = << >>
    /\ Len(responses) < MaxRequests
    /\ IF raises
       THEN /\ responses' = Respond(500, "Failed to send event", event)
            /\ UNCHANGED <<handling, queue, enqueued>>
       ELSE /\ queue' = Append(queue,
                   [msg |-> Message(event["session_id"].text, json_dumps(event)),
                    written |-> 0])
            /\ enqueued' = Append(enqueued,
                   Message(event["session_id"].text, json_dumps(event)))
            /\ handling' = <<event>>
            /\ UNCHANGED responses
    /\ UNCHANGED <<outcomes, printed>>
    /\ UNCHANGED <<volatile, topic, console, checkpoint, table, tableSchema,
                   replayed>>

\* POST /events, lines 46-49: poll(0) runs the callbacks of the waiting
\* reports and the handler answers "Event sent".  poll(0) is inside the try
\* block: when it raises after n callbacks - in the next callback, whose
\* report is then consumed without a line, or by itself after the last -
\* the handler answers HTTP 500 although the message is on the queue.
PollAndRespond(n, raises) ==
    /\ handling # << >>
    /\ n \in 0..Len(outcomes)
    /\ IF raises
       THEN /\ printed' = printed \o Poll(SubSeq(outcomes, 1, n))
            /\ outcomes' = SubSeq(outcomes, n + 2, Len(outcomes))
            /\ responses' = Respond(500, "Failed to send event", handling[1])
       ELSE /\ n = Len(outcomes)
            /\ printed' = printed \o Poll(outcomes)
            /\ outcomes' = << >>
            /\ responses' = Respond(200, "Event sent", handling[1])
    /\ handling' = << >>
    /\ UNCHANGED <<queue, enqueued>>
    /\ UNCHANGED <<volatile, topic, console, checkpoint, table, tableSchema,
                   replayed>>

\* the sequence q without its i-th element
RemoveAt(q, i) == SubSeq(q, 1, i - 1) \o SubSeq(q, i + 1, Len(q))

\* the producer's thread sends a queued message and the broker appends it
\* to the partition of its key.  The producer is configured with
\* bootstrap.servers only (lines 10-13): retries are on and idempotence is
\* off, so a message whose acknowledgement is lost is sent again and can be
\* written twice, and a later message of the queue can be written first.
SendAttempt(i) ==
    /\ i \in DOMAIN queue
    /\ queue[i].written < MaxAttempts
    /\ topic' = [topic EXCEPT ![KafkaPartition(queue[i].msg.key)] =
                                   Append(@, queue[i].msg.value)]
    /\ queue' = [queue EXCEPT ![i].written = @ + 1]
    /\ UNCHANGED <<handling, outcomes, enqueued, responses, printed>>
    /\ UNCHANGED <<volatile, console, checkpoint, table, tableSchema,
                   replayed>>

\* the producer's thread settles a queued message: its delivery report, an
\* acknowledgement or an error, waits for the next poll().  A success is
\* reported only for a message that was written; an error (timeout) also
\* for one that was.
Deliver(i, err) ==
    /\ i \in DOMAIN queue
    /\ ~err => queue[i].written >= 1
    /\ queue' = RemoveAt(queue, i)
    /\ outcomes' = Append(outcomes, [err |-> err, msg |-> queue[i].msg])
    /\ UNCHANGED <<handling, enqueued, responses, printed>>
    /\ UNCHANGED <<volatile, topic, console, checkpoint, table, tableSchema,
                   replayed>>

IngressInit == Init /\ tz = 0

IngressNext ==
    \/ \E event \in ApiEvents : \E raises \in BOOLEAN : SendEvent(event, raises)
    \/ \E n \in 0..MaxRequests : \E raises \in BOOLEAN : PollAndRespond(n, raises)
    \/ \E i \in 1..MaxRequests : SendAttempt(i)
    \/ \E i \in 1..MaxRequests : \E err \in BOOLEAN : Deliver(i, err)

IngressSpec == IngressInit /\ [][IngressNext]_vars

TypeOK ==
    /\ pc \in {"down", "db", "kafka", "invalid", "table", "writer", "await",
               "exited"}
    /\ iq \in {"none", "active", "failed", "stopped"}
    /\ wq \in {"none", "active", "failed", "stopped"}
    /\ wPhase \in {"idle", "planned", "appended"}
    /\ commitLog \in 0..Len(offsetLog)
    /\ Len(offsetLog) <= commitLog + 1

(* ---------------------------------------------------------------------- *)
(* Vocabulary of the properties                                           *)
(* ---------------------------------------------------------------------- *)

\* a valid Event: decodable, with the four required fields present, an
\* integer user_id and a timestamp that denotes an instant
IsValidEvent(payload) ==
    /\ payload.decodable
    /\ {"event_id", "event_type", "user_id", "timestamp"} \subseteq DOMAIN payload.fields
    /\ payload.fields["user_id"].type = "int"
    /\ payload.fields["user_id"].text \in DOMAIN IntLiterals
    /\ payload.fields["timestamp"].text \in DOMAIN TimestampLiterals

CheckpointExists == initialOffsets # << >>

\* positions (partition, offset) present in the topic
Positions ==
    UNION {{<<p, o>> : o \in 0..(Len(topic[p]) - 1)} : p \in Partitions}

\* positions covered by the batches the writer has planned so far
Delivered ==
    IF ~CheckpointExists THEN {}
    ELSE {po \in Positions : /\ initialOffsets[1][po[1]] <= po[2]
                             /\ po[2] < PlannedOffsets[po[1]]}

\* all (snapshot, row) indices of the table
TableCells == UNION {{<<i, j>> : j \in DOMAIN table[i].rows} : i \in DOMAIN table}

\* number of table rows that stem from position po
RowCount(po) ==
    Cardinality({c \in TableCells : table[c[1]].rows[c[2]].src = po})

\* every planned batch is marked committed
Converged == CheckpointExists /\ commitLog = Len(offsetLog)

\* committed watermark of the checkpoint for partition p
Watermark(p) ==
    IF commitLog = 0 THEN initialOffsets[1][p] ELSE offsetLog[commitLog][p]

\* highest offset (exclusive) of p covered by a snapshot of the table
TableHighOffset(p) ==
    IF table = << >> THEN initialOffsets[1][p]
    ELSE BatchEnd(Max(TableEpochs))[p]

(* ---------------------------------------------------------------------- *)
(* Properties                                                             *)
(* ---------------------------------------------------------------------- *)

\* C1: exactly-once.  No position of the topic ever has two rows in the
\* table, and once every planned batch is committed each position delivered
\* to the writer has exactly one row if its record is a valid event and none
\* otherwise, whatever crashes, restarts and re-runs of batches happened.
C1_ExactlyOnce ==
    /\ \A po \in Positions : RowCount(po) <= 1
    /\ Converged =>
          \A po \in Delivered :
              RowCount(po) = IF IsValidEvent(RecordAt(po[1], po[2])) THEN 1 ELSE 0

\* a batch was delivered again after a restart and the pipeline converged
\* with a valid event of that history in the table
C1_Witness ==
    /\ replayed
    /\ Converged
    /\ pc = "await"
    /\ \E po \in Delivered : IsValidEvent(RecordAt(po[1], po[2])) /\ RowCount(po) = 1

\* C2: the committed watermark of the checkpoint never exceeds the offsets
\* covered by the table's snapshots, and the commit log advances only in a
\* state where the table already holds the snapshot of the batch it marks.
C2_AckAfterCommit ==
    /\ [](CheckpointExists => \A p \in Partitions : Watermark(p) <= TableHighOffset(p))
    /\ [][commitLog' # commitLog => (commitLog' - 1) \in TableEpochs]_vars

\* the watermark has moved past the starting offsets
C2_Witness ==
    /\ CheckpointExists
    /\ commitLog >= 1
    /\ \E p \in Partitions : Watermark(p) > initialOffsets[1][p]

\* the rows the writer produces for batch b
BatchRows(b) == WriterRows(BatchStart(b), BatchEnd(b), partialResults, tz)

\* a batch is planned and not marked committed
InFlight == Len(offsetLog) > commitLog

\* rows of batch b are visible in the table
RowsVisible(b) ==
    \E i \in DOMAIN table : table[i].epochId = b /\ table[i].rows # << >>

\* C3: whenever a commit attempt was interrupted - the batch is
\* not marked committed and the writer is not running - the table is as it
\* was before the attempt, i.e. shows no row of that batch.
C3_Original ==
    (InFlight /\ wq # "active") => ~RowsVisible(Len(offsetLog) - 1)

\* C4: the rows of a batch are visible in the table if and only
\* if the checkpoint marks the batch committed.
C4_Original ==
    \A b \in 0..(Len(offsetLog) - 1) :
        BatchRows(b) # << >> => (RowsVisible(b) <=> (b < commitLog))

\* C3 and C4, what the two stores do guarantee: every snapshot of the table
\* holds the rows of one whole batch, no batch has two snapshots, a crash or
\* a failed batch never changes the table, and every batch the checkpoint
\* marks committed has its snapshot in the table.
TwoStoreGuarantee ==
    /\ [](\A i \in DOMAIN table :
             /\ table[i].epochId \in 0..(Len(offsetLog) - 1)
             /\ table[i].rows = BatchRows(table[i].epochId)
             /\ \A j \in DOMAIN table : table[j].epochId = table[i].epochId => j = i)
    /\ [][(pc' = "down" \/ wq' = "failed" \/ wq' = "stopped") => table' = table]_vars
    /\ [](\A b \in 0..(commitLog - 1) :
             \E i \in DOMAIN table :
                 table[i].epochId = b /\ table[i].rows = BatchRows(b))

\* C5: the committed watermark of no partition ever decreases.
C5_WatermarkMonotone ==
    [][CheckpointExists =>
          \A p \in Partitions : Watermark(p)' >= Watermark(p)]_vars

\* two batches are committed and the job was restarted in between
C5_Witness ==
    /\ commitLog >= 2
    /\ \E p \in Partitions : offsetLog[2][p] > offsetLog[1][p]
    /\ replayed

\* C6: with no checkpoint the writer starts from the earliest offset, so
\* every record of the topic is delivered to it.
C6_StartsFromEarliest ==
    CheckpointExists => initialOffsets[1] = ZeroOffsets

\* positions the console query consumes in a step
ConsoleConsumes(po) ==
    /\ iq = "active" /\ iq' = "active"
    /\ iOffsets # << >> /\ iOffsets' # << >>
    /\ iOffsets[po[1]] <= po[2] /\ po[2] < iOffsets'[po[1]]

InConsole(po, out) == \E e \in out : e.src = po

\* C8: a record with event_id and event_type but without user_id that the
\* invalid-record query consumes is in the dead-letter output afterwards,
\* and the step changes neither the table nor the checkpoint.
C8_MissingUserIdDeadLettered ==
    [][\A po \in Positions :
          (/\ ConsoleConsumes(po)
           /\ RecordAt(po[1], po[2]).decodable
           /\ {"event_id", "event_type"} \subseteq DOMAIN RecordAt(po[1], po[2]).fields
           /\ "user_id" \notin DOMAIN RecordAt(po[1], po[2]).fields)
          => /\ InConsole(po, console')
             /\ table' = table
             /\ checkpoint' = checkpoint]_vars

\* C9: a record whose timestamp is present but does not parse that the
\* invalid-record query consumes is in the dead-letter output afterwards.
C9_BadTimestampDeadLettered ==
    [][\A po \in Positions :
          (/\ ConsoleConsumes(po)
           /\ RecordAt(po[1], po[2]).decodable
           /\ "timestamp" \in DOMAIN RecordAt(po[1], po[2]).fields
           /\ RecordAt(po[1], po[2]).fields["timestamp"].text
                 \notin DOMAIN TimestampLiterals)
          => InConsole(po, console')]_vars

\* C10: once the invalid-record query has failed, no step stops the running
\* table writer.
C10_DeadLetterIsolation ==
    [][(iq = "failed" /\ wq = "active") => wq' # "stopped"]_vars

\* positions covered by batch b of the writer
BatchPositions(b) ==
    {po \in Positions : BatchStart(b)[po[1]] <= po[2] /\ po[2] < BatchEnd(b)[po[1]]}

\* the table tbl holds a row that stems from position po
HasRow(tbl, po) ==
    \E i \in DOMAIN tbl : \E j \in DOMAIN tbl[i].rows : tbl[i].rows[j].src = po

\* C7: every row of the table has event_id, event_type, user_id and
\* timestamp non-null.
C7_RequiredNonNull ==
    \A c \in TableCells :
        \A f \in {"event_id", "event_type", "user_id", "timestamp"} :
            table[c[1]].rows[c[2]].data[f] # Null

\* the writer committed a batch that held a valid event, which has its row,
\* and a decodable record that lacks exactly one critical field or has it
\* unreadable, which has none
C7_Witness ==
    /\ commitLog = 1
    /\ \E po \in BatchPositions(0) :
          IsValidEvent(RecordAt(po[1], po[2])) /\ HasRow(table, po)
    /\ \E po \in BatchPositions(0) :
          /\ RecordAt(po[1], po[2]) \in
                {MissingEventId, MissingEventType, MissingUserId,
                 MissingTimestamp, BadTimestamp, MistypedUserId, OverflowUserId}
          /\ ~HasRow(table, po)

\* C11: no record, however malformed, terminates the writer or the
\* invalid-record query: with the storage in order both stay active, every
\* planned batch is taken by the sink, and after that step every valid
\* event of the batch has its row in the table.
C11_ValidationNeverBlocks ==
    /\ [](wq = "active" /\ iq = "active")
    /\ [][(wPhase = "planned" /\ wPhase' # "planned") =>
             /\ wPhase' = "appended"
             /\ \A po \in BatchPositions(Len(offsetLog) - 1) :
                   IsValidEvent(RecordAt(po[1], po[2])) => HasRow(table', po)]_vars

\* a committed batch that mixed a valid event with a malformed record
C11_Witness ==
    /\ commitLog = 1
    /\ wq = "active"
    /\ \E po \in BatchPositions(0) :
          IsValidEvent(RecordAt(po[1], po[2])) /\ HasRow(table, po)
    /\ \E po \in BatchPositions(0) :
          Malformed(RecordAt(po[1], po[2])) /\ ~HasRow(table, po)

\* C13: the event_date of every row of the table is the UTC calendar date
\* of the row's timestamp.
C13_EventDateIsUtcDate ==
    \A c \in TableCells :
        LET row == table[c[1]].rows[c[2]].data
        IN  row["event_date"] = date_format(row["timestamp"], 0)

\* C14: every valid event the writer has committed has a row, and the row
\* holds every field of the event's payload that the schema does not know,
\* with its value.
C14_ExtraFieldsPreserved ==
    /\ Converged =>
          \A po \in Delivered :
              IsValidEvent(RecordAt(po[1], po[2])) => HasRow(table, po)
    /\ \A c \in TableCells :
          LET r == table[c[1]].rows[c[2]]
              payload == RecordAt(r.src[1], r.src[2])
          IN  \A f \in DOMAIN payload.fields \ SchemaFields :
                  f \in DOMAIN r.data /\ r.data[f] = Some(payload.fields[f].text)

\* C17: no position of the topic is both in the table and in the output of
\* the invalid-record query; a position in the table parses to a row with
\* the four critical fields non-null, a position in the invalid-record
\* output parses to a row with a null event_id or event_type.
C17_RoutingDisjoint ==
    \A po \in Positions :
        LET row == parsed_df(RecordAt(po[1], po[2]), partialResults, tz)
        IN  /\ ~(HasRow(table, po) /\ InConsole(po, console))
            /\ HasRow(table, po) =>
                  \A f \in {"event_id", "event_type", "user_id", "timestamp"} :
                      row[f] # Null
            /\ InConsole(po, console) =>
                  (row["event_id"] = Null \/ row["event_type"] = Null)

\* both queries have worked the topic off: one record went to the table,
\* one to the invalid-record output
C17_Witness ==
    /\ commitLog = 1
    /\ iOffsets = LatestOffsets
    /\ \E po \in Positions : HasRow(table, po)
    /\ \E po \in Positions : InConsole(po, console)

\* C12: once the checkpoint marks a batch committed, every valid event of
\* the topic below the committed watermark of its partition has a row in
\* the table.
C12_NoSilentLoss ==
    (CheckpointExists /\ commitLog >= 1) =>
        \A po \in Positions :
            (po[2] < Watermark(po[1]) /\ IsValidEvent(RecordAt(po[1], po[2])))
                => HasRow(table, po)

\* C12, the part about the failure itself: a failing batch terminates the
\* writer without touching the commit log or the table, and the driver then
\* leaves awaitAnyTermination and stops the session.
C12_HaltsWithoutAdvance ==
    /\ [][(wq = "active" /\ wq' = "failed") =>
             (commitLog' = commitLog /\ table' = table)]_vars
    /\ [][(wq = "failed" /\ wPhase' # wPhase) => pc' \in {"exited", "down"}]_vars
    /\ [](wq = "failed" =>
             /\ wPhase = "idle"
             /\ pc \in {"await", "exited"}
             /\ pc = "await" => ENABLED AwaitAnyTermination)

\* C15, the part that has a counterpart in the program: a valid event that
\* omits optional fields of the schema is accepted, with null in the
\* columns it omits, also after an event that carried them.
OmittedOptionalAccepted ==
    Converged =>
        \A po \in Delivered :
            LET payload == RecordAt(po[1], po[2])
            IN  IsValidEvent(payload) =>
                   /\ HasRow(table, po)
                   /\ \A c \in TableCells :
                         table[c[1]].rows[c[2]].src = po =>
                            \A f \in SchemaFields \ DOMAIN payload.fields :
                                table[c[1]].rows[c[2]].data[f] = Null

\* a step in which the setup of the job fails: the bucket variable is
\* unset at launch, one of the three guarded setup statements raises, or
\* the start of one of the two queries raises
SetupFails ==
    \/ Launch(FALSE)
    \/ CreateDatabase(FALSE)
    \/ ReadStream(FALSE)
    \/ StartInvalidQuery(FALSE)
    \/ CreateTable(FALSE)
    \/ StartWriter(FALSE)

\* C18: a failing setup step ends the script with no query left running and
\* the writer never started, and changes neither the table nor the
\* checkpoint; the writer runs only after every setup statement of its run
\* succeeded, so only over an existing table; and nothing but the running
\* writer creates or changes the checkpoint or the table, which holds no
\* row while there is no checkpoint.
C18_FailFastSetup ==
    /\ [][SetupFails =>
             /\ pc' = "exited"
             /\ wq' = "none"
             /\ iq' # "active"
             /\ wPhase' = "idle"
             /\ table' = table
             /\ tableSchema' = tableSchema
             /\ checkpoint' = checkpoint]_vars
    /\ [](pc \in {"db", "kafka", "invalid", "table", "writer"} => wq = "none")
    /\ [](wq = "active" => tableSchema # << >>)
    /\ [][(checkpoint' # checkpoint \/ table' # table) =>
             (wq = "active" /\ pc = "await")]_vars
    /\ [](~CheckpointExists => table = << >>)

\* the first run of the job failed at CREATE TABLE, after the
\* invalid-record query had been started, with records in the topic
C18_Witness ==
    /\ pc = "exited"
    /\ iq = "stopped"
    /\ wq = "none"
    /\ tableSchema = << >>
    /\ ~CheckpointExists
    /\ table = << >>
    /\ TotalRecords >= 1

\* the message POST /events is to produce for a request body
MessageOf(event) ==
    [key |-> event["session_id"].text,
     value |-> [decodable |-> TRUE, fields |-> event]]

IsEventSent(r) == r.body = "Event sent"

\* the messages of the requests answered "Event sent", in order
RECURSIVE MessagesOf(_)
MessagesOf(rs) ==
    IF rs = << >> THEN << >>
    ELSE <<MessageOf(Head(rs).request)>> \o MessagesOf(Tail(rs))

Acknowledged == MessagesOf(SelectSeq(responses, IsEventSent))

\* a step of the producer's thread or of a delivery callback: the message
\* of no new request is accepted in it
DeliveryStep == enqueued' = enqueued

\* C19: a request is answered "Event sent" exactly when produce() accepted
\* its message, keyed by the event's session_id, and with HTTP 500
\* otherwise: whenever no request is being handled, the messages of the
\* requests answered "Event sent" are the messages produce() accepted.  What
\* happens to a message afterwards changes no response, and the delivery
\* callbacks only print.
C19_AckReflectsEnqueueOnly ==
    /\ [](\A i \in DOMAIN responses :
             /\ responses[i].code \in {200, 500}
             /\ responses[i].code = 200 <=> responses[i].body = "Event sent")
    /\ [](handling = << >> => Acknowledged = enqueued)
    /\ [][/\ Len(responses') >= Len(responses)
          /\ SubSeq(responses', 1, Len(responses)) = responses]_vars

\* C19, what the handler does guarantee: a request answered "Event sent"
\* has its message, keyed by session_id, among those produce() accepted; a
\* request whose produce() raised is answered with HTTP 500; steps of the
\* producer's thread give no response and print nothing; no message is
\* enqueued except by a request.
C19_AckImpliesEnqueued ==
    /\ [](\A i \in DOMAIN Acknowledged :
             \E j \in DOMAIN enqueued : enqueued[j] = Acknowledged[i])
    /\ [](Len(Acknowledged) <= Len(enqueued))
    /\ [](Len(enqueued) <= Len(responses) + Len(handling))
    /\ [](\A i \in DOMAIN queue :
             \E j \in DOMAIN enqueued : enqueued[j] = queue[i].msg)
    /\ [](Len(queue) + Len(outcomes) + Len(printed) <= Len(enqueued))
    /\ [][(handling = << >> /\ handling' = << >> /\ responses' # responses)
             => (enqueued' = enqueued /\ responses'[Len(responses')].code = 500)]_vars
    /\ [][(queue' # queue /\ DeliveryStep) =>
             (responses' = responses /\ printed' = printed)]_vars

====
